---- MODULE Spec2Model ----
(***************************************************************************)
(* Model of the transaction record service (src/src/api/api.py) and of the *)
(* batch ingestor (src/src/batch/ingest.py) over one DuckDB database.      *)
(*                                                                         *)
(* The table has the columns id, time, v1..v28, amount, created_at.  The   *)
(* 28 feature columns v1..v28 are declared, validated, inserted and        *)
(* updated by the same generic code as time and amount (list               *)
(* comprehensions over the column names), so the model keeps one of them,  *)
(* v1.                                                                     *)
(***************************************************************************)
EXTENDS Integers, Sequences, FiniteSets, TLC

(***************************************************************************)
(* Bounds of the model.                                                    *)
(***************************************************************************)
\* the sequence transaction_id_seq hands out the ids 1..MaxId
MaxId == 2
\* a scanned dataset has at most MaxDsRows rows
MaxDsRows == 2
\* POST requests that can be in progress at the same time
NumClients == 2

\* the values a data cell can hold
Values == {0, 1}

(***************************************************************************)
(* The schema: model.py and the TRANSACTION definition of                  *)
(* src/batch/definitions.py.                                               *)
(***************************************************************************)
\* the caller-supplied columns of the table (time, v1..v28, amount)
Fields == {"time", "v1", "amount"}

\* every column of the table transactions
Columns == {"id"} \cup Fields \cup {"created_at"}

\* the schema definition handed to the ingestor
TRANSACTION ==
    [table_name |-> "transactions",
     expected_columns |-> <<"time", "v1", "amount">>]

\* the objects a database can hold: its file, the sequence and the table
SEQUENCE_NAME == "transaction_id_seq"
TABLE_NAME == "transactions"
DB_FILE == "file"

\* CREATE SEQUENCE IF NOT EXISTS transaction_id_seq START 1 INCREMENT BY 1
CREATE_SEQUENCE_QUERY(objs) == objs \cup {SEQUENCE_NAME}

\* CREATE TABLE IF NOT EXISTS transactions (...)
BASE_TABLE_QUERY(objs) == objs \cup {TABLE_NAME}

\* TRANSACTION['base_query']: the idempotent creation of the destination
\* table (with the sequence its id column draws from)
base_query(objs) == BASE_TABLE_QUERY(CREATE_SEQUENCE_QUERY(objs))

\* duckdb.connect(path) creates the database file when it is absent
connect(objs) == objs \cup {DB_FILE}

(***************************************************************************)
(* Sequences and strings.                                                  *)
(***************************************************************************)
Range(s) == {s[i] : i \in 1..Len(s)}

\* position of column c in the column list cols (c occurs in cols)
IndexOf(cols, c) == CHOOSE j \in 1..Len(cols) : cols[j] = c

\* str.lower() on the column names that occur
lower(c) ==
    CASE c = "TIME" -> "time"
      [] c = "Time" -> "time"
      [] c = "V1" -> "v1"
      [] c = "AMOUNT" -> "amount"
      [] c = "Amount" -> "amount"
      [] OTHER -> c

\* the subsequence of s whose elements are in keep, in the order of s
RECURSIVE Filter(_, _)
Filter(s, keep) ==
    IF s = <<>> THEN <<>>
    ELSE IF Head(s) \in keep THEN <<Head(s)>> \o Filter(Tail(s), keep)
    ELSE Filter(Tail(s), keep)

(***************************************************************************)
(* State.                                                                  *)
(***************************************************************************)
VARIABLES
    objects,    \* what the database holds: its file, the sequence, the table
    rows,       \* the records of the table transactions
    seq,        \* the next value of transaction_id_seq
    clock,      \* CURRENT_TIMESTAMP
    last,       \* the last call: operation, inputs, outcome, state before it
    deleted,    \* the ids of the records a DELETE has removed so far
    clients     \* the POST requests in progress at the same time

vars == <<objects, rows, seq, clock, last, deleted, clients>>

\* the state a call starts from, kept with the call's outcome
Before == [rows |-> rows, objects |-> objects, seq |-> seq]

(***************************************************************************)
(* SQL statements (DuckDB, one autocommitted statement each).              *)
(***************************************************************************)
\* the row INSERT builds from the supplied values: id DEFAULT nextval(...),
\* created_at DEFAULT CURRENT_TIMESTAMP
NewRow(id, ts, vals) ==
    [c \in Columns |->
        IF c = "id" THEN id ELSE IF c = "created_at" THEN ts ELSE vals[c]]

\* INSERT INTO transactions (fields) ...: one row per element of src, ids
\* drawn from the sequence in order
InsertRows(rs, first, ts, src) ==
    rs \cup {NewRow(first + i - 1, ts, src[i]) : i \in 1..Len(src)}

\* the id as one more than the greatest id of the table
nextval_after_max(rs, s) ==
    IF rs = {} THEN 1
    ELSE 1 + (CHOOSE m \in {r.id : r \in rs} : \A r \in rs : r.id <= m)

\* nextval('transaction_id_seq') with the sequence at s: the value s,
\* whatever the table holds (the sequence never goes back)
nextval(rs, s) == s

\* DeleteRows with the test turned round: the other records are deleted
DeleteRows_other_records(rs, id) == {r \in rs : r.id = id}

\* SELECT * FROM transactions WHERE id = ?
SelectById(rs, id) == {r \in rs : r.id = id}

\* SELECT max(id) FROM transactions (the table is not empty)
SelectMaxId(rs) == CHOOSE m \in {r.id : r \in rs} : \A r \in rs : r.id <= m

\* UpdateRows without its WHERE clause: every record is updated
UpdateRows_every_record(rs, id, data) ==
    {[c \in Columns |-> IF c \in DOMAIN data THEN data[c] ELSE r[c]] : r \in rs}

\* UPDATE transactions SET k = ? (k in data) WHERE id = ?
UpdateRows(rs, id, data) ==
    {IF r.id = id
        THEN [c \in Columns |-> IF c \in DOMAIN data THEN data[c] ELSE r[c]]
        ELSE r : r \in rs}

\* DELETE FROM transactions WHERE id = ?
DeleteRows(rs, id) == {r \in rs : r.id # id}

\* rowcount as the number of rows the statement touched
rowcount_of_affected(affected) == affected

\* cur.rowcount after the DELETE: DuckDB's connection reports -1 for every
\* statement, whatever the number of rows it touched
rowcount(affected) == -1

(***************************************************************************)
(* The record service: api.py.                                             *)
(***************************************************************************)
\* ids a request can name: every id the sequence can assign and one more
RequestIds == 1..(MaxId + 1)

\* request bodies of POST: every field is required
Payloads == [Fields -> Values]

\* the default of every field of TransactionUpdate
None == 0 - 1

\* TransactionUpdate instances: the fields the request body supplied hold the
\* supplied values, the others hold their default None
TransactionUpdates ==
    {[fields_set |-> {c \in Fields : v[c] # None}, values |-> v] :
        v \in [Fields -> Values \cup {None}]}

\* the server is serving: startup_event has run
Serving == {SEQUENCE_NAME, TABLE_NAME} \subseteq objects

\* startup_event: create the sequence and the table if absent
startup_event ==
    /\ objects' = BASE_TABLE_QUERY(CREATE_SEQUENCE_QUERY(connect(objects)))
    /\ last' = [op |-> "startup", pre |-> Before]
    /\ UNCHANGED <<rows, seq, clock>>

\* convert_to_db_row: the payload without id and created_at
convert_to_db_row(transaction) ==
    [c \in (DOMAIN transaction) \ {"id", "created_at"} |-> transaction[c]]

\* POST /transactions
create_transaction(transaction) ==
    /\ Serving
    /\ seq <= MaxId
    /\ LET values == convert_to_db_row(transaction)
           inserted == InsertRows(rows, nextval(rows, seq), clock, <<values>>)
           last_id == SelectMaxId(inserted)
           row == CHOOSE r \in SelectById(inserted, last_id) : TRUE
       IN  /\ rows' = inserted
           /\ seq' = seq + 1
           /\ clock' = clock + 1
           /\ last' = [op |-> "create", payload |-> transaction,
                       status |-> 200, body |-> row, pre |-> Before]
    /\ UNCHANGED objects

\* GET /transactions/{transaction_id}
read_transaction(transaction_id) ==
    /\ Serving
    /\ LET found == SelectById(rows, transaction_id)
       IN  last' = IF found = {}
                   THEN [op |-> "read", id |-> transaction_id, status |-> 404,
                         detail |-> "Transaction not found", pre |-> Before]
                   ELSE [op |-> "read", id |-> transaction_id, status |-> 200,
                         body |-> CHOOSE r \in found : TRUE, pre |-> Before]
    /\ UNCHANGED <<objects, rows, seq, clock>>

\* model_dump() without exclude_unset: every field, the unset ones as None
model_dump_every_field(transaction_update) == transaction_update.values

\* model_dump(exclude_unset=True): the fields the request set, without the
\* fields left at their default None
model_dump_exclude_unset(transaction_update) ==
    [c \in transaction_update.fields_set |-> transaction_update.values[c]]

\* PUT /transactions/{transaction_id}
update_transaction(transaction_id, transaction_update) ==
    /\ Serving
    /\ LET update_data == model_dump_exclude_unset(transaction_update)
           updated == UpdateRows(rows, transaction_id, update_data)
           found == SelectById(updated, transaction_id)
       IN  IF DOMAIN update_data = {}
           THEN /\ rows' = rows
                /\ last' = [op |-> "update", id |-> transaction_id,
                            update |-> transaction_update, status |-> 400,
                            detail |-> "No fields to update",
                            executed |-> FALSE, pre |-> Before]
           ELSE /\ rows' = updated
                /\ last' =
                    IF found = {}
                    THEN [op |-> "update", id |-> transaction_id,
                          update |-> transaction_update, status |-> 404,
                          detail |-> "No transaction found after update",
                          executed |-> TRUE, pre |-> Before]
                    ELSE [op |-> "update", id |-> transaction_id,
                          update |-> transaction_update, status |-> 200,
                          body |-> CHOOSE r \in found : TRUE,
                          executed |-> TRUE, pre |-> Before]
    /\ UNCHANGED <<objects, seq, clock>>

\* DELETE /transactions/{transaction_id}
delete_transaction(transaction_id) ==
    /\ Serving
    /\ LET remaining == DeleteRows(rows, transaction_id)
           cur_rowcount == rowcount(Cardinality(rows) - Cardinality(remaining))
       IN  /\ rows' = remaining
           /\ last' = IF cur_rowcount = 0
                      THEN [op |-> "delete", id |-> transaction_id,
                            status |-> 404, detail |-> "Transaction not found",
                            pre |-> Before]
                      ELSE [op |-> "delete", id |-> transaction_id,
                            status |-> 204, pre |-> Before]
    /\ UNCHANGED <<objects, seq, clock>>

(***************************************************************************)
(* The batch ingestor: ingest.py.                                          *)
(***************************************************************************)
\* the parquet_path argument
PARQUET_PATH == "partitioned_data"

\* column names a source file can carry
SourceColumns == Fields \cup {"id", "created_at", "extra"}

\* physical column orders of the source files
FileOrders ==
    {<<"time", "v1", "amount", "extra", "id", "created_at">>,
     <<"created_at", "extra", "amount", "id", "v1", "time">>}

\* column lists of the scanned relation: any non-empty set of source columns
\* in one of the physical orders
Layouts ==
    {Filter(o, S) : o \in FileOrders, S \in (SUBSET SourceColumns) \ {{}}}

\* the columns are a superset of the expected ones and carry neither id nor
\* created_at
Loadable(cols) ==
    /\ Range(TRANSACTION.expected_columns) \subseteq Range(cols)
    /\ "id" \notin Range(cols)
    /\ "created_at" \notin Range(cols)

\* one source row in the physical order cols; the cells of the columns that
\* are no table field hold 1
PhysicalRow(cols, src) ==
    [j \in 1..Len(cols) |-> IF cols[j] \in Fields THEN src[cols[j]] ELSE 1]

\* contents of the rows of a dataset with the columns cols: every content
\* when the dataset can be loaded, one content when it cannot
RowContents(cols) ==
    IF Loadable(cols) THEN [Fields -> Values] ELSE {[c \in Fields |-> 0]}

\* what parquet_path can lead to: nothing, a directory without a matching
\* file, or a partitioned dataset read as one relation
NoPath == [exists |-> FALSE, files |-> FALSE, cols |-> <<>>, rows |-> <<>>]
NoFiles == [exists |-> TRUE, files |-> FALSE, cols |-> <<>>, rows |-> <<>>]
Datasets ==
    UNION {UNION {{[exists |-> TRUE, files |-> TRUE, cols |-> L,
                    rows |-> [i \in 1..n |-> PhysicalRow(L, src[i])]] :
                      src \in [1..n -> RowContents(L)]} :
                  n \in 0..MaxDsRows} :
           L \in Layouts}
Sources == {NoPath, NoFiles} \cup Datasets

\* the frame with its first columns renamed to cols, by position
Project_by_position(df, cols) ==
    [cols |-> cols,
     rows |-> [i \in 1..Len(df.rows) |->
                 [j \in 1..Len(cols) |-> df.rows[i][j]]]]

\* df[expected_columns]: the frame with the columns cols, by name
Project(df, cols) ==
    [cols |-> cols,
     rows |-> [i \in 1..Len(df.rows) |->
                 [j \in 1..Len(cols) |-> df.rows[i][IndexOf(df.cols, cols[j])]]]]

\* SELECT cols FROM temp_df: the rows of the frame as values by column name
SelectColumns(df, cols) ==
    [i \in 1..Len(df.rows) |->
        [c \in Range(cols) |-> df.rows[i][IndexOf(df.cols, c)]]]

\* missing_cols stopping at the first missing column
missing_cols_first_only(expected_columns, existing_cols) ==
    LET absent == Filter(expected_columns,
                         Range(expected_columns) \ Range(existing_cols))
    IN  IF absent = <<>> THEN <<>> ELSE <<lower(absent[1])>>

\* missing_cols = [c.lower() for c in expected_columns if c not in existing_cols]
missing_cols(expected_columns, existing_cols) ==
    LET absent == Filter(expected_columns,
                         Range(expected_columns) \ Range(existing_cols))
    IN  [i \in 1..Len(absent) |-> lower(absent[i])]

\* the forbidden-column test widened to every column that is not expected
forbidden_cols_any_unexpected(existing_cols) ==
    Range(existing_cols) \ Range(TRANSACTION.expected_columns) # {}

\* the forbidden-column test left out
forbidden_cols_unchecked(existing_cols) == FALSE

\* the forbidden-column test without created_at
forbidden_cols_id_only(existing_cols) == "id" \in Range(existing_cols)

\* "id" in existing_cols or "created_at" in existing_cols
forbidden_cols(existing_cols) ==
    "id" \in Range(existing_cols) \/ "created_at" \in Range(existing_cols)

\* the existence test left out
path_exists_unchecked(dir) == TRUE

\* Path(parquet_path).exists()
path_exists(dir) == dir.exists

\* the outcome of a call that raised: the connection is "none" when the call
\* never connected and "open" when it connected and did not close
Raised(dir, error, message, con) ==
    [op |-> "ingest", source |-> dir, status |-> error, message |-> message,
     con |-> con, pre |-> Before]

\* ingest_parquet_to_db(db_path, parquet_path, TRANSACTION)
ingest_parquet_to_db(dir) ==
    LET expected_columns == TRANSACTION.expected_columns
        df == [cols |-> dir.cols, rows |-> dir.rows]
        existing_cols == df.cols
        missing == missing_cols(expected_columns, existing_cols)
        temp_df == Project(df, expected_columns)
        n == Len(temp_df.rows)
    IN  IF ~path_exists(dir)
        THEN /\ last' = Raised(dir, "FileNotFoundError", <<PARQUET_PATH>>, "none")
             /\ UNCHANGED <<objects, rows, seq, clock>>
        ELSE IF ~dir.files
        THEN /\ objects' = connect(objects)
             /\ last' = Raised(dir, "IOException", <<>>, "open")
             /\ UNCHANGED <<rows, seq, clock>>
        ELSE IF missing # <<>>
        THEN /\ objects' = connect(objects)
             /\ last' = Raised(dir, "ValueError: missing columns", missing, "open")
             /\ UNCHANGED <<rows, seq, clock>>
        ELSE IF forbidden_cols(existing_cols)
        THEN /\ objects' = connect(objects)
             /\ last' = Raised(dir, "ValueError: auto-generated", <<>>, "open")
             /\ UNCHANGED <<rows, seq, clock>>
        ELSE /\ seq + n <= MaxId + 1
             /\ objects' = base_query(connect(objects))
             /\ rows' = InsertRows(rows, nextval(rows, seq), clock,
                                   SelectColumns(temp_df, expected_columns))
             /\ seq' = seq + n
             /\ clock' = IF n = 0 THEN clock ELSE clock + 1
             /\ last' = [op |-> "ingest", source |-> dir, status |-> "done",
                         processed |-> n, con |-> "closed", pre |-> Before]

(***************************************************************************)
(* The system: calls are served one at a time, each to completion.         *)
(***************************************************************************)
\* the threads of the server that serve POST requests at the same time, each
\* request on its own connection (get_db)
Clients == 1..NumClients

\* a thread that serves no request
IdleClient == [pc |-> "idle"]

\* no call has been made, or the outcome of the last one has been delivered
Idle == [op |-> "none"]

Init ==
    /\ objects = {}
    /\ rows = {}
    /\ seq = 1
    /\ clock = 1
    /\ last = Idle
    /\ deleted = {}
    /\ clients = [c \in Clients |-> IdleClient]

\* the DELETE of the last call found a record with its id and answered 204
Removed(call, rs) ==
    IF call.op = "delete" /\ call.status = 204 /\ SelectById(rs, call.id) # {}
    THEN {call.id} ELSE {}

\* the next call starts when the last one has returned
Startup == last = Idle /\ startup_event /\ UNCHANGED <<deleted, clients>>
Create ==
    /\ last = Idle
    /\ \E t \in Payloads : create_transaction(t)
    /\ UNCHANGED <<deleted, clients>>
Read ==
    /\ last = Idle
    /\ \E id \in RequestIds : read_transaction(id)
    /\ UNCHANGED <<deleted, clients>>
Update ==
    /\ last = Idle
    /\ \E id \in RequestIds, u \in TransactionUpdates : update_transaction(id, u)
    /\ UNCHANGED <<deleted, clients>>
Delete ==
    /\ last = Idle
    /\ \E id \in RequestIds : delete_transaction(id)
    /\ deleted' = deleted \cup Removed(last', rows)
    /\ UNCHANGED clients
Ingest ==
    /\ last = Idle
    /\ \E dir \in Sources : ingest_parquet_to_db(dir)
    /\ UNCHANGED <<deleted, clients>>

\* the outcome of the call reaches the caller
Return ==
    /\ last # Idle
    /\ last' = Idle
    /\ UNCHANGED <<objects, rows, seq, clock, deleted, clients>>

Next == Startup \/ Create \/ Read \/ Update \/ Delete \/ Ingest \/ Return

Spec == Init /\ [][Next]_vars

(***************************************************************************)
(* Concurrent POST requests: the statements of create_transaction, one     *)
(* autocommitted statement at a time, interleaved between the requests.    *)
(***************************************************************************)
\* convert_to_response: the row as a dictionary by column name
convert_to_response(row) == [c \in Columns |-> row[c]]

\* con.execute("INSERT INTO transactions ..."); own_id keeps the id the
\* store assigned to this insert
PostInsert(c) ==
    /\ Serving
    /\ clients[c].pc = "idle"
    /\ seq <= MaxId
    /\ \E transaction \in Payloads :
         LET values == convert_to_db_row(transaction)
             id == nextval(rows, seq)
         IN  /\ rows' = InsertRows(rows, id, clock, <<values>>)
             /\ clients' = [clients EXCEPT ![c] =
                    [pc |-> "inserted", payload |-> transaction, own_id |-> id]]
    /\ seq' = seq + 1
    /\ clock' = clock + 1
    /\ UNCHANGED <<objects, last, deleted>>

\* last_id = con.execute("SELECT max(id) FROM transactions").fetchone()[0]
PostSelectMax(c) ==
    /\ clients[c].pc = "inserted"
    /\ clients' = [clients EXCEPT ![c] =
           [pc |-> "selected", payload |-> clients[c].payload,
            own_id |-> clients[c].own_id, last_id |-> SelectMaxId(rows)]]
    /\ UNCHANGED <<objects, rows, seq, clock, last, deleted>>

\* row = con.execute("SELECT * ... WHERE id = ?", [last_id]).fetchone();
\* return convert_to_response(row, ...)
PostSelectRow(c) ==
    /\ clients[c].pc = "selected"
    /\ \E row \in SelectById(rows, clients[c].last_id) :
         clients' = [clients EXCEPT ![c] =
           [pc |-> "done", payload |-> clients[c].payload,
            own_id |-> clients[c].own_id, status |-> 200,
            body |-> convert_to_response(row)]]
    /\ UNCHANGED <<objects, rows, seq, clock, last, deleted>>

\* the response is sent and get_db closes the connection
PostReturn(c) ==
    /\ clients[c].pc = "done"
    /\ clients' = [clients EXCEPT ![c] = IdleClient]
    /\ UNCHANGED <<objects, rows, seq, clock, last, deleted>>

NextConc ==
    \/ Startup
    \/ Return
    \/ \E c \in Clients : PostInsert(c)
    \/ \E c \in Clients : PostSelectMax(c)
    \/ \E c \in Clients : PostSelectRow(c)
    \/ \E c \in Clients : PostReturn(c)

SpecConc == Init /\ [][NextConc]_vars

(***************************************************************************)
(* Properties of the batch ingestor.                                       *)
(***************************************************************************)
\* the last call was an ingestion whose path led to a scanned dataset
IngestedDataset ==
    /\ last.op = "ingest"
    /\ last.source.exists
    /\ last.source.files

\* the value source row i holds in the column named c
SourceValue(src, i, c) == src.rows[i][IndexOf(src.cols, c)]

\* C1: a dataset whose columns are a superset of expected_columns and carry
\* neither id nor created_at is ingested without error, and the table then
\* holds its rows before the call plus exactly the rows of the dataset.
C1_IngestAddsEverySourceRow ==
    (/\ IngestedDataset
     /\ Range(TRANSACTION.expected_columns) \subseteq Range(last.source.cols)
     /\ "id" \notin Range(last.source.cols)
     /\ "created_at" \notin Range(last.source.cols))
    => /\ last.status = "done"
       /\ Cardinality(rows) =
            Cardinality(last.pre.rows) + Len(last.source.rows)

\* C1 witness: a two-row dataset with an extra column was ingested into a
\* table that gained two rows.
C1_Witness ==
    /\ IngestedDataset
    /\ last.status = "done"
    /\ "extra" \in Range(last.source.cols)
    /\ Len(last.source.rows) = 2
    /\ Cardinality(rows) = 2

\* C2: a dataset lacking some expected column fails with the missing-columns
\* error, whose message names every missing expected column, and the table is
\* left as it was (same row count, same rows).
C2_MissingColumnsRejected ==
    (/\ IngestedDataset
     /\ ~(Range(TRANSACTION.expected_columns) \subseteq Range(last.source.cols)))
    => /\ last.status = "ValueError: missing columns"
       /\ Range(last.message) =
            Range(TRANSACTION.expected_columns) \ Range(last.source.cols)
       /\ Cardinality(rows) = Cardinality(last.pre.rows)
       /\ rows = last.pre.rows

\* C2 witness: a dataset with rows that lacks two expected columns was
\* rejected while the table held a record.
C2_Witness ==
    /\ IngestedDataset
    /\ last.status = "ValueError: missing columns"
    /\ Len(last.message) = 2
    /\ Len(last.source.rows) > 0
    /\ rows # {}

\* C3: a dataset carrying a column id or created_at fails, with or without
\* all expected columns, and no row is written.
C3_ForbiddenColumnsRejected ==
    (/\ IngestedDataset
     /\ ("id" \in Range(last.source.cols)
            \/ "created_at" \in Range(last.source.cols)))
    => /\ last.status \in {"ValueError: missing columns",
                           "ValueError: auto-generated"}
       /\ rows = last.pre.rows

\* C3 witness: a dataset with rows, every expected column and created_at
\* (and no id) was rejected.
C3_Witness ==
    /\ IngestedDataset
    /\ Range(TRANSACTION.expected_columns) \subseteq Range(last.source.cols)
    /\ "created_at" \in Range(last.source.cols)
    /\ "id" \notin Range(last.source.cols)
    /\ Len(last.source.rows) > 0
    /\ last.status = "ValueError: auto-generated"

\* C4: after a successful ingestion the inserted rows are the source rows
\* taken column by column by NAME: for every combination of values of the
\* expected columns, as many rows were inserted with it as the source holds,
\* whatever the physical column order; no inserted row has a column the
\* table does not have.
C4_InsertedRowsCarrySourceValuesByName ==
    (IngestedDataset /\ last.status = "done")
    => LET src == last.source
           new == rows \ last.pre.rows
       IN  /\ \A v \in [Fields -> Values] :
                Cardinality({r \in new : \A c \in Fields : r[c] = v[c]})
                  = Cardinality({i \in 1..Len(src.rows) :
                        \A c \in Range(TRANSACTION.expected_columns) :
                            SourceValue(src, i, c) = v[c]})
           /\ \A r \in new :
                (DOMAIN r) \cap (Range(src.cols)
                    \ Range(TRANSACTION.expected_columns)) = {}

\* C4 witness: a dataset whose files store amount before time, with an extra
\* column, and whose row has different values in time and amount, was
\* ingested.
C4_Witness ==
    /\ IngestedDataset
    /\ last.status = "done"
    /\ "extra" \in Range(last.source.cols)
    /\ IndexOf(last.source.cols, "amount") < IndexOf(last.source.cols, "time")
    /\ \E i \in 1..Len(last.source.rows) :
          SourceValue(last.source, i, "time")
            # SourceValue(last.source, i, "amount")

\* C5: every ingestion that opened a connection has closed it when the call
\* returns or raises.
C5_ConnectionReleased ==
    (last.op = "ingest" /\ last.con # "none") => last.con = "closed"

\* C6: when parquet_path does not exist the call fails with
\* FileNotFoundError naming the path, opens no connection, creates no
\* database file and no table, and writes no row.
C6_MissingPathFailsFirst ==
    (last.op = "ingest" /\ ~last.source.exists)
    => /\ last.status = "FileNotFoundError"
       /\ last.message = <<PARQUET_PATH>>
       /\ last.con = "none"
       /\ objects = last.pre.objects
       /\ rows = last.pre.rows

\* C6 witness: an ingestion from a missing path was made on a system with no
\* database yet, and there still is none.
C6_Witness ==
    /\ last.op = "ingest"
    /\ ~last.source.exists
    /\ last.pre.objects = {}
    /\ objects = {}

(***************************************************************************)
(* Properties of the record service.                                       *)
(***************************************************************************)
\* the records with the id of the last request, before the request
Target == {r \in last.pre.rows : r.id = last.id}

\* C7: DELETE of an existing id answers 204 and removes the record; DELETE
\* of an id no record has answers 404 'Transaction not found' and leaves the
\* store unchanged.
C7_DeleteAnswers204Or404 ==
    last.op = "delete"
    => IF Target # {}
       THEN last.status = 204 /\ rows = last.pre.rows \ Target
       ELSE /\ last.status = 404
            /\ last.detail = "Transaction not found"
            /\ rows = last.pre.rows

C9_EmptyUpdateAnswers400 ==
    (last.op = "update" /\ last.update.fields_set = {})
    => /\ last.status = 400
       /\ last.detail = "No fields to update"
       /\ ~last.executed
       /\ rows = last.pre.rows

\* C9 witness: an empty PUT named the id of an existing record.
C9_Witness ==
    /\ last.op = "update"
    /\ last.update.fields_set = {}
    /\ Target # {}

\* C10: a PUT answered 200 has set exactly the supplied fields of the record
\* with that id: its other fields, its id and its created_at are as before,
\* and so is every other record.
C10_UpdateSetsOnlySuppliedFields ==
    (last.op = "update" /\ last.status = 200)
    => /\ Cardinality(Target) = 1
       /\ \A old \in Target :
            \E new \in rows :
              /\ new.id = old.id
              /\ new.created_at = old.created_at
              /\ \A c \in Fields :
                    new[c] = IF c \in last.update.fields_set
                             THEN last.update.values[c] ELSE old[c]
              /\ rows \ {new} = last.pre.rows \ {old}

\* C10 witness: a PUT supplying amount only changed the amount of one of two
\* records.
C10_Witness ==
    /\ last.op = "update"
    /\ last.status = 200
    /\ last.update.fields_set = {"amount"}
    /\ Cardinality(rows) = 2
    /\ \E old \in Target : old.amount # last.update.values["amount"]

(***************************************************************************)
(* Properties of identities.                                               *)
(***************************************************************************)
\* C11: once a DELETE has removed the record with some id, every later
\* GET /transactions/{id} for that id answers 404, whatever calls were made
\* in between.
C11_DeletedIdIsNeverReadAgain ==
    (last.op = "read" /\ last.id \in deleted)
    => /\ last.status = 404
       /\ last.detail = "Transaction not found"

\* C11 witness: a GET named a deleted id after later inserts had filled the
\* table again.
C11_Witness ==
    /\ last.op = "read"
    /\ last.id \in deleted
    /\ rows # {}
    /\ seq > last.id + 1

\* the ids of a set of records
Ids(rs) == {r.id : r \in rs}

\* C12: after every call no two records share an id; a record the call
\* inserted has an id greater than every id assigned before (the ids of the
\* records the call found and of the records deleted earlier); and the call
\* changed the id of no record: the ids it found are still there, but for
\* the one a DELETE named, and only POST and the ingestion add ids.
C12_IdsUniqueIncreasingAndStable ==
    last.op # "none"
    => LET old == Ids(last.pre.rows)
           new == Ids(rows) \ old
       IN  /\ \A r1 \in rows : \A r2 \in rows : r1.id = r2.id => r1 = r2
           /\ \A i \in new : \A j \in old \cup deleted : i > j
           /\ new # {} => last.op \in {"create", "ingest"}
           /\ IF last.op = "delete"
              THEN Ids(rows) = old \ {last.id}
              ELSE old \subseteq Ids(rows)

\* C12 witness: a POST inserted a record after the record with the greatest
\* id had been deleted.
C12_Witness ==
    /\ last.op = "create"
    /\ deleted # {}
    /\ \A j \in Ids(last.pre.rows) : \E d \in deleted : d > j
    /\ last.body.id \in Ids(rows)

(***************************************************************************)
(* Order of the checks of the batch ingestor.                              *)
(***************************************************************************)
\* the last call scanned a dataset that carries id or created_at
IngestedForbidden ==
    /\ IngestedDataset
    /\ ("id" \in Range(last.source.cols)
          \/ "created_at" \in Range(last.source.cols))

\* every expected column is among the columns of the scanned dataset
AllExpectedPresent ==
    Range(TRANSACTION.expected_columns) \subseteq Range(last.source.cols)

\* C13 as stated: a dataset that carries id or created_at is rejected with
\* the auto-generated-fields error, whether or not an expected column is
\* missing.
C13_ForbiddenErrorWhateverIsMissing ==
    IngestedForbidden => last.status = "ValueError: auto-generated"

\* C13 amended: a dataset that carries id or created_at is rejected with the
\* auto-generated-fields error when all expected columns are present, and
\* with the missing-columns error, the forbidden-column check not being
\* reached, when some expected column is missing.
C13_ForbiddenErrorOnlyWhenNothingIsMissing ==
    IngestedForbidden
    => IF AllExpectedPresent
       THEN last.status = "ValueError: auto-generated"
       ELSE /\ last.status = "ValueError: missing columns"
            /\ last.message # <<>>

\* C13 witness: a dataset with id and without amount was rejected with the
\* missing-columns error.
C13_Witness ==
    /\ IngestedForbidden
    /\ "id" \in Range(last.source.cols)
    /\ "amount" \notin Range(last.source.cols)
    /\ last.status = "ValueError: missing columns"

(***************************************************************************)
(* Properties of concurrent POST requests.                                 *)
(***************************************************************************)
\* C14: under every interleaving of concurrent POST requests the record a
\* request returns is the one it inserted: it has the id the store assigned
\* to the request's insert and the values of the request's payload, and the
\* record read back by the returned id holds those values.
C14_CreateReturnsItsOwnRecord ==
    \A c \in Clients :
        clients[c].pc = "done"
        => /\ clients[c].body.id = clients[c].own_id
           /\ \A f \in Fields : clients[c].body[f] = clients[c].payload[f]
           /\ \A r \in SelectById(rows, clients[c].body.id) :
                 \A f \in Fields : r[f] = clients[c].payload[f]

====
